---- MODULE Spec2Model ----
(***************************************************************************)
(* Model of the flask-movie_actors application: the Actor, Film and        *)
(* FilmActor tables (model.py) and the request handlers of                 *)
(* views/actors.py and views/films.py that create, update and delete       *)
(* their rows.  Every handler is an operator from the database, the        *)
(* request method and the form fields to the response status and the       *)
(* database it leaves behind; an action applies one handler to one         *)
(* request.                                                                *)
(***************************************************************************)
EXTENDS Integers, Sequences, FiniteSets, Bags, TLC

VARIABLES actor, film, film_actor, foreign_keys, session

vars == <<actor, film, film_actor, foreign_keys, session>>

(***************************************************************************)
(* Bounds of the model: the number of distinct primary keys uuid4() can    *)
(* hand out per table.                                                     *)
(***************************************************************************)
MaxActors == 2
MaxFilms == 2

\* the number of requests that are served at the same time
MaxRequests == 2

ActorIds == 1..MaxActors
FilmIds == 1..MaxFilms

(***************************************************************************)
(* The requests the handlers are given.  Numbers arrive as text: the form  *)
(* value of an age or a year is the sequence of its digits.  A GET request *)
(* carries no form.                                                        *)
(***************************************************************************)
GET == "GET"
POST == "POST"
Methods == {GET, POST}

ActorForm(first_name, last_name, age) ==
    [first_name |-> first_name, last_name |-> last_name, age |-> age]

FilmForm(title, description, year) ==
    [title |-> title, description |-> description, year |-> year]

ActorForms ==
    { ActorForm("John", "Doe", <<3, 0>>), ActorForm("John", "Doe", <<0, 3, 0>>),
      ActorForm("Jane", "Doe", <<3, 0>>), ActorForm("John", "Doe", <<2, 5>>),
      ActorForm("Jane", "Doe", <<1, 0, 1>>) }

FilmForms ==
    { FilmForm("Big", "d1", <<1, 9, 9, 4>>), FilmForm("Big", "d2", <<1, 9, 9, 4>>),
      FilmForm("Big", "d1", <<2, 0, 0, 0>>), FilmForm("Up", "d1", <<1, 9, 9, 4>>),
      FilmForm("Up", "d2", <<2, 0, 3, 0>>) }

\* forms with an age, a year next to the range the tables accept
OutOfRangeActorForms == {ActorForm("John", "Doe", <<0>>), ActorForm("Jane", "Doe", <<1, 0, 1>>)}
OutOfRangeFilmForms ==
    {FilmForm("Big", "d1", <<1, 9, 0, 0>>), FilmForm("Up", "d2", <<2, 0, 3, 0>>)}

\* the form of films/add.html: the fields of an actor and of a film
AddFilmForms ==
    {[first_name |-> a.first_name, last_name |-> a.last_name, age |-> a.age,
      title |-> f.title, description |-> f.description, year |-> f.year] :
        a \in ActorForms, f \in FilmForms}

NoForm == <<>>

\* the requests of a route that takes a form of the set forms
Requests(forms) ==
    {[method |-> GET, form |-> NoForm]}
        \cup {[method |-> POST, form |-> form] : form \in forms}

\* HTTP statuses of the responses
OK == 200
Found == 302
NotFound == 404
Conflict == 409
InternalServerError == 500

(***************************************************************************)
(* The database: actor and film map a primary key to the row's columns;    *)
(* film_actor is the bag of (film_id, actor_id) rows, the row's own        *)
(* primary key being left out, so that two rows with the same pair are two *)
(* copies in the bag.                                                      *)
(***************************************************************************)
Db(a, f, fa) == [actor |-> a, film |-> f, film_actor |-> fa]

db == Db(actor, film, film_actor)

Respond(status, d) == [status |-> status, db |-> d]

\* the decimal value of the digits of a text
RECURSIVE DecimalValue(_)
DecimalValue(text) ==
    IF text = <<>> THEN 0
    ELSE 10 * DecimalValue(SubSeq(text, 1, Len(text) - 1)) + text[Len(text)]

\* the values of the texts the forms carry, computed once
Casts ==
    [text \in {form.age : form \in ActorForms \cup OutOfRangeActorForms}
                  \cup {form.year : form \in FilmForms \cup OutOfRangeFilmForms}
        |-> DecimalValue(text)]

\* cast(text, Integer): the decimal value of the digits
CastInteger(text) == Casts[text]

\* Actor(first_name=, last_name=, age=): the row of a form, the age as the
\* integer column stores it
ActorRow(form) ==
    [first_name |-> form.first_name, last_name |-> form.last_name,
     age |-> CastInteger(form.age)]

\* Film(title=, description=, year=): the row of a form
FilmRow(form) ==
    [title |-> form.title, description |-> form.description,
     year |-> CastInteger(form.year)]

\* Actor.__table_args__: the check constraints of the actor table
ActorChecks(row) ==
    /\ Len(row.first_name) < 20
    /\ Len(row.last_name) < 25
    /\ row.age > 0 /\ row.age < 101

\* check constraints of the film table that let the year 1900 in
FilmChecksFrom1900(row) ==
    /\ Len(row.title) < 20
    /\ Len(row.description) < 500
    /\ row.year < 2030 /\ row.year >= 1900

\* Film.__table_args__: the check constraints of the film table
FilmChecks(row) ==
    /\ Len(row.title) < 20
    /\ Len(row.description) < 500
    /\ row.year < 2030 /\ row.year > 1900

\* unique_actor: no other row of the table holds the triple
UniqueActor(d, id, row) ==
    \A other \in DOMAIN d.actor \ {id} :
        ~ (/\ d.actor[other].first_name = row.first_name
           /\ d.actor[other].last_name = row.last_name
           /\ d.actor[other].age = row.age)

\* unique_film: no other row of the table holds the pair
UniqueFilm(d, id, row) ==
    \A other \in DOMAIN d.film \ {id} :
        ~ (d.film[other].title = row.title /\ d.film[other].year = row.year)

\* film_actor_combines_unique: the pair is not in the table yet
UniqueFilmActor(d, row) == ~ BagIn(row, d.film_actor)

\* the foreign keys of film_actor, where the engine enforces them
ForeignKeysHold(d) ==
    \A row \in BagToSet(d.film_actor) :
        row.film_id \in DOMAIN d.film /\ row.actor_id \in DOMAIN d.actor

\* the lookup of an actor without its age
SelectActorByName(d, first_name, last_name, age) ==
    {id \in DOMAIN d.actor :
        d.actor[id].first_name = first_name /\ d.actor[id].last_name = last_name}

\* select(Actor).where(first_name ==, last_name ==, age == cast(age, Integer))
SelectActor(d, first_name, last_name, age) ==
    {id \in DOMAIN d.actor :
        /\ d.actor[id].first_name = first_name
        /\ d.actor[id].last_name = last_name
        /\ d.actor[id].age = CastInteger(age)}

\* the lookup of a film without its year
SelectFilmByTitle(d, title, year) ==
    {id \in DOMAIN d.film : d.film[id].title = title}

\* select(Film).where(title ==, year == cast(year, Integer))
SelectFilm(d, title, year) ==
    {id \in DOMAIN d.film :
        d.film[id].title = title /\ d.film[id].year = CastInteger(year)}

\* session.scalar(): the first row of a result (the result is not empty)
Scalar(ids) == CHOOSE id \in ids : \A other \in ids : id <= other

\* uuid4(): a primary key no row of the table has; once the keys of the
\* model are used up, one key beyond them
Uuid4(ids, used) == IF ids \ used # {} THEN ids \ used ELSE {Cardinality(ids) + 1}

\* f with the row of key id set to row
Put(f, id, row) == [k \in DOMAIN f \cup {id} |-> IF k = id THEN row ELSE f[k]]

\* f without the rows of the keys in ids
Drop(f, ids) == [k \in DOMAIN f \ ids |-> f[k]]

\* the rows of bag b that are in the set rows, as many times as in b
Rows(b, rows) == [row \in DOMAIN b \cap rows |-> b[row]]

\* delete(FilmActor).where(FilmActor.actor_id == actor_id), .where(film_id ==)
DeleteOfActor(b, actor_id) == Rows(b, {row \in DOMAIN b : row.actor_id # actor_id})
DeleteOfFilm(b, film_id) == Rows(b, {row \in DOMAIN b : row.film_id # film_id})

(***************************************************************************)
(* views/actors.py                                                         *)
(***************************************************************************)

\* actor.films / film.people: the film_actor rows of one actor, of one film
FilmsOf(d, actor_id) ==
    Rows(d.film_actor, {row \in DOMAIN d.film_actor : row.actor_id = actor_id})
PeopleOf(d, film_id) ==
    Rows(d.film_actor, {row \in DOMAIN d.film_actor : row.film_id = film_id})

\* film_actor.film is None for a row whose film is gone, and reading an
\* attribute of None raises
FilmsLoad(d, actor_id) ==
    \A row \in BagToSet(FilmsOf(d, actor_id)) : row.film_id \in DOMAIN d.film

\* commit of a unit of work that deleted rows: an engine that enforces the
\* foreign keys rejects it, and the unit is rolled back, when a film_actor
\* row would be left without its film or its actor
Commit(d, fk, after) ==
    IF fk /\ ~ ForeignKeysHold(after) THEN Respond(InternalServerError, d)
    ELSE Respond(Found, after)

\* add_actor that answers an actor that exists as update_actor does
add_actor_conflict(d, method, form, new_id) ==
    IF method = GET THEN Respond(OK, d)
    ELSE IF SelectActor(d, form.first_name, form.last_name, form.age) # {}
         THEN Respond(Conflict, d)
    ELSE IF ActorChecks(ActorRow(form)) /\ UniqueActor(d, new_id, ActorRow(form))
         THEN Respond(Found, Db(Put(d.actor, new_id, ActorRow(form)), d.film, d.film_actor))
         ELSE Respond(InternalServerError, d)

\* add_actor without the lookup, on a table without unique_actor: the actor
\* of the form is inserted whatever the table holds
add_actor_insert(d, method, form, new_id) ==
    IF method = GET THEN Respond(OK, d)
    ELSE IF ActorChecks(ActorRow(form))
         THEN Respond(Found, Db(Put(d.actor, new_id, ActorRow(form)), d.film, d.film_actor))
         ELSE Respond(InternalServerError, d)

\* add_actor: look the triple up, insert the actor when it is absent
add_actor(d, method, form, new_id) ==
    IF method = GET THEN Respond(OK, d)
    ELSE IF SelectActor(d, form.first_name, form.last_name, form.age) # {}
         THEN Respond(Found, d)
    ELSE LET row == ActorRow(form)
         IN  IF ActorChecks(row) /\ UniqueActor(d, new_id, row)
             THEN Respond(Found, Db(Put(d.actor, new_id, row), d.film, d.film_actor))
             ELSE Respond(InternalServerError, d)

\* update_actor that looks for the triple among the other actors only
update_actor_others(d, method, actor_id, form) ==
    IF actor_id \notin DOMAIN d.actor THEN Respond(NotFound, d)
    ELSE IF method = GET THEN Respond(OK, d)
    ELSE IF SelectActor(d, form.first_name, form.last_name, form.age) \ {actor_id} # {}
         THEN Respond(Conflict, d)
    ELSE IF ActorChecks(ActorRow(form)) /\ UniqueActor(d, actor_id, ActorRow(form))
         THEN Respond(Found, Db(Put(d.actor, actor_id, ActorRow(form)), d.film, d.film_actor))
         ELSE Respond(InternalServerError, d)

\* update_actor whose update().values() leaves the age out
update_actor_names(d, method, actor_id, form) ==
    IF actor_id \notin DOMAIN d.actor THEN Respond(NotFound, d)
    ELSE IF method = GET THEN Respond(OK, d)
    ELSE IF SelectActor(d, form.first_name, form.last_name, form.age) # {}
         THEN Respond(Conflict, d)
    ELSE LET row == [ActorRow(form) EXCEPT !.age = d.actor[actor_id].age]
         IN  IF ActorChecks(row) /\ UniqueActor(d, actor_id, row)
             THEN Respond(Found, Db(Put(d.actor, actor_id, row), d.film, d.film_actor))
             ELSE Respond(InternalServerError, d)

\* update_actor: overwrite the three columns unless some actor has the triple
update_actor(d, method, actor_id, form) ==
    IF actor_id \notin DOMAIN d.actor THEN Respond(NotFound, d)
    ELSE IF method = GET THEN Respond(OK, d)
    ELSE IF SelectActor(d, form.first_name, form.last_name, form.age) # {}
         THEN Respond(Conflict, d)
    ELSE LET row == ActorRow(form)
         IN  IF ActorChecks(row) /\ UniqueActor(d, actor_id, row)
             THEN Respond(Found, Db(Put(d.actor, actor_id, row), d.film, d.film_actor))
             ELSE Respond(InternalServerError, d)

\* the census of delete_actor without the count: every film of the actor
FilmsToDeleteAll(d, actor_id) ==
    {row.film_id : row \in BagToSet(FilmsOf(d, actor_id))}

\* the films of the actor that have one film_actor row in all, and the films
\* that have no film_actor row
FilmsToDeleteOrphans(d, actor_id) ==
    {row.film_id : row \in {r \in BagToSet(FilmsOf(d, actor_id)) :
                               BagCardinality(PeopleOf(d, r.film_id)) = 1}}
        \cup {f \in DOMAIN d.film : PeopleOf(d, f) = EmptyBag}

\* the films of the actor that have one film_actor row in all
FilmsToDelete(d, actor_id) ==
    {row.film_id : row \in {r \in BagToSet(FilmsOf(d, actor_id)) :
                               BagCardinality(PeopleOf(d, r.film_id)) = 1}}

\* delete_actor that answers an actor that is gone as a deleted one
delete_actor_quiet(d, fk, method, actor_id) ==
    IF actor_id \notin DOMAIN d.actor THEN Respond(Found, d)
    ELSE IF ~ FilmsLoad(d, actor_id) THEN Respond(InternalServerError, d)
    ELSE Commit(d, fk, Db(Drop(d.actor, {actor_id}),
                          Drop(d.film, FilmsToDelete(d, actor_id)),
                          DeleteOfActor(d.film_actor, actor_id)))

\* delete_actor: the actor, its film_actor rows and the films it was the
\* only actor of; the method of the request is not looked at
delete_actor(d, fk, method, actor_id) ==
    IF actor_id \notin DOMAIN d.actor THEN Respond(NotFound, d)
    ELSE IF ~ FilmsLoad(d, actor_id) THEN Respond(InternalServerError, d)
    ELSE LET films_to_delete == FilmsToDelete(d, actor_id)
             rows == DeleteOfActor(d.film_actor, actor_id)
         IN  Commit(d, fk, Db(Drop(d.actor, {actor_id}),
                              Drop(d.film, films_to_delete), rows))

(***************************************************************************)
(* utils.py                                                                *)
(***************************************************************************)
None == "None"

\* what requests.get() does: it raises (no connection), or it returns a
\* response with a status code and a body, with a film or with no film in it
Gets ==
    {[raises |-> TRUE, status_code |-> 0, json |-> None],
     [raises |-> FALSE, status_code |-> OK, json |-> "docs"],
     [raises |-> FALSE, status_code |-> OK, json |-> "no docs"],
     [raises |-> FALSE, status_code |-> NotFound, json |-> "error"]}

\* get_rating_movie: the body of a response of status OK, None for another
\* status; what requests.get() raises is not caught
get_rating_movie(get) ==
    IF get.raises THEN [raises |-> TRUE, value |-> None]
    ELSE IF get.status_code = OK THEN [raises |-> FALSE, value |-> get.json]
    ELSE [raises |-> FALSE, value |-> None]

(***************************************************************************)
(* views/films.py                                                          *)
(***************************************************************************)

\* request.args of detail: a title and a year
Args == {[title |-> form.title, year |-> form.year] : form \in FilmForms}

\* detail: the film of (title, year) with the rating of its title; year is
\* request.args.get('year', type=int)
detail(d, title, year, get) ==
    IF SelectFilm(d, title, year) = {}
    THEN [status |-> NotFound, db |-> d, movie_data |-> None]
    ELSE LET movie_data == get_rating_movie(get)
         IN  IF movie_data.raises
             THEN [status |-> InternalServerError, db |-> d, movie_data |-> None]
             ELSE [status |-> OK, db |-> d, movie_data |-> movie_data.value]

\* the titles of an actor whose films are not read
TitlesOfNoFilm(d, actor_id) == {}

\* the titles of the films of one actor
TitlesOf(d, actor_id) ==
    {d.film[row.film_id].title : row \in BagToSet(FilmsOf(d, actor_id))}

\* the second commit of add_film: the film_actor row of the film and the actor
InsertFilmActor(d, fk, film_id, actor_id) ==
    LET row == [film_id |-> film_id, actor_id |-> actor_id]
        after == Db(d.actor, d.film, d.film_actor (+) SetToBag({row}))
    IN  IF UniqueFilmActor(d, row) /\ (fk => ForeignKeysHold(after))
        THEN Respond(Found, after)
        ELSE Respond(InternalServerError, d)

\* add_film without the check of the actor's titles, on a table without
\* film_actor_combines_unique: the row is inserted whatever the table holds
add_film_again(d, fk, method, form, new_id) ==
    IF method = GET THEN Respond(OK, d)
    ELSE LET actors == SelectActor(d, form.first_name, form.last_name, form.age)
             films == SelectFilm(d, form.title, form.year)
             link(film_id) == [film_id |-> film_id, actor_id |-> Scalar(actors)]
         IN  IF actors = {} THEN Respond(NotFound, d)
             ELSE IF films # {}
                  THEN Respond(Found, Db(d.actor, d.film,
                                         d.film_actor (+) SetToBag({link(Scalar(films))})))
             ELSE IF FilmChecks(FilmRow(form)) /\ UniqueFilm(d, new_id, FilmRow(form))
                  THEN Respond(Found, Db(d.actor, Put(d.film, new_id, FilmRow(form)),
                                         d.film_actor (+) SetToBag({link(new_id)})))
             ELSE Respond(InternalServerError, d)

\* add_film that refuses the (title, year) the actor has, not the title
add_film_title_year(d, fk, method, form, new_id) ==
    IF method = GET THEN Respond(OK, d)
    ELSE LET actors == SelectActor(d, form.first_name, form.last_name, form.age)
             films == SelectFilm(d, form.title, form.year)
             row == FilmRow(form)
         IN  IF actors = {} THEN Respond(NotFound, d)
             ELSE IF ~ FilmsLoad(d, Scalar(actors)) THEN Respond(InternalServerError, d)
             ELSE IF \E film_id \in films :
                         BagIn([film_id |-> film_id, actor_id |-> Scalar(actors)],
                               d.film_actor)
                  THEN Respond(Conflict, d)
             ELSE IF films # {}
                  THEN InsertFilmActor(d, fk, Scalar(films), Scalar(actors))
             ELSE IF FilmChecks(row) /\ UniqueFilm(d, new_id, row)
                  THEN InsertFilmActor(Db(d.actor, Put(d.film, new_id, row), d.film_actor),
                                       fk, new_id, Scalar(actors))
             ELSE Respond(InternalServerError, d)

\* add_film that looks at the actor's titles only when the film is new
add_film_new_titles(d, fk, method, form, new_id) ==
    IF method = GET THEN Respond(OK, d)
    ELSE LET actors == SelectActor(d, form.first_name, form.last_name, form.age)
             films == SelectFilm(d, form.title, form.year)
             row == FilmRow(form)
         IN  IF actors = {} THEN Respond(NotFound, d)
             ELSE IF ~ FilmsLoad(d, Scalar(actors)) THEN Respond(InternalServerError, d)
             ELSE IF films # {}
                  THEN InsertFilmActor(d, fk, Scalar(films), Scalar(actors))
             ELSE IF form.title \in TitlesOf(d, Scalar(actors)) THEN Respond(Conflict, d)
             ELSE IF FilmChecks(row) /\ UniqueFilm(d, new_id, row)
                  THEN InsertFilmActor(Db(d.actor, Put(d.film, new_id, row), d.film_actor),
                                       fk, new_id, Scalar(actors))
             ELSE Respond(InternalServerError, d)

\* add_film: the film of (title, year), inserted and committed when it is
\* absent, then its film_actor row with the actor of the form
add_film(d, fk, method, form, new_id) ==
    IF method = GET THEN Respond(OK, d)
    ELSE LET actors == SelectActor(d, form.first_name, form.last_name, form.age)
             films == SelectFilm(d, form.title, form.year)
             row == FilmRow(form)
         IN  IF actors = {} THEN Respond(NotFound, d)
             ELSE IF ~ FilmsLoad(d, Scalar(actors)) THEN Respond(InternalServerError, d)
             ELSE IF form.title \in TitlesOf(d, Scalar(actors)) THEN Respond(Conflict, d)
             ELSE IF films # {}
                  THEN InsertFilmActor(d, fk, Scalar(films), Scalar(actors))
             ELSE IF FilmChecks(row) /\ UniqueFilm(d, new_id, row)
                  THEN InsertFilmActor(Db(d.actor, Put(d.film, new_id, row), d.film_actor),
                                       fk, new_id, Scalar(actors))
             ELSE Respond(InternalServerError, d)

\* update_film without the lookup, on a table without unique_film: the
\* columns are overwritten whatever the table holds
update_film_overwrite(d, method, film_id, form) ==
    IF film_id \notin DOMAIN d.film THEN Respond(NotFound, d)
    ELSE IF method = GET THEN Respond(OK, d)
    ELSE IF FilmChecks(FilmRow(form))
         THEN Respond(Found, Db(d.actor, Put(d.film, film_id, FilmRow(form)), d.film_actor))
         ELSE Respond(InternalServerError, d)

\* update_film that looks for (title, year) among the other films only
update_film_others(d, method, film_id, form) ==
    IF film_id \notin DOMAIN d.film THEN Respond(NotFound, d)
    ELSE IF method = GET THEN Respond(OK, d)
    ELSE IF SelectFilm(d, form.title, form.year) \ {film_id} # {} THEN Respond(Conflict, d)
    ELSE IF FilmChecks(FilmRow(form)) /\ UniqueFilm(d, film_id, FilmRow(form))
         THEN Respond(Found, Db(d.actor, Put(d.film, film_id, FilmRow(form)), d.film_actor))
         ELSE Respond(InternalServerError, d)

\* update_film whose update().values() leaves the description out
update_film_title_year(d, method, film_id, form) ==
    IF film_id \notin DOMAIN d.film THEN Respond(NotFound, d)
    ELSE IF method = GET THEN Respond(OK, d)
    ELSE IF SelectFilm(d, form.title, form.year) # {} THEN Respond(Conflict, d)
    ELSE LET row == [FilmRow(form) EXCEPT !.description = d.film[film_id].description]
         IN  IF FilmChecks(row) /\ UniqueFilm(d, film_id, row)
             THEN Respond(Found, Db(d.actor, Put(d.film, film_id, row), d.film_actor))
             ELSE Respond(InternalServerError, d)

\* update_film: overwrite the three columns unless some film has (title, year)
update_film(d, method, film_id, form) ==
    IF film_id \notin DOMAIN d.film THEN Respond(NotFound, d)
    ELSE IF method = GET THEN Respond(OK, d)
    ELSE IF SelectFilm(d, form.title, form.year) # {} THEN Respond(Conflict, d)
    ELSE LET row == FilmRow(form)
         IN  IF FilmChecks(row) /\ UniqueFilm(d, film_id, row)
             THEN Respond(Found, Db(d.actor, Put(d.film, film_id, row), d.film_actor))
             ELSE Respond(InternalServerError, d)

\* delete_film without its delete(FilmActor): the rows of the film stay
delete_film_only(d, fk, method, film_id) ==
    IF film_id \notin DOMAIN d.film THEN Respond(NotFound, d)
    ELSE Commit(d, fk, Db(d.actor, Drop(d.film, {film_id}), d.film_actor))

\* delete_film that, as delete_actor does for films, also deletes the actors
\* the film was the only film of
delete_film_cascade(d, fk, method, film_id) ==
    IF film_id \notin DOMAIN d.film THEN Respond(NotFound, d)
    ELSE LET rows == DeleteOfFilm(d.film_actor, film_id)
             actors_to_delete ==
                 {row.actor_id : row \in {r \in BagToSet(PeopleOf(d, film_id)) :
                                              BagCardinality(FilmsOf(d, r.actor_id)) = 1}}
         IN  Commit(d, fk, Db(Drop(d.actor, actors_to_delete),
                              Drop(d.film, {film_id}), rows))

\* delete_film: the film and its film_actor rows; the method of the request
\* is not looked at
delete_film(d, fk, method, film_id) ==
    IF film_id \notin DOMAIN d.film THEN Respond(NotFound, d)
    ELSE LET rows == DeleteOfFilm(d.film_actor, film_id)
         IN  Commit(d, fk, Db(d.actor, Drop(d.film, {film_id}), rows))

\* delete_film_by_actor that also deletes a film left without a row
delete_film_by_actor_cascade(d, film_id, actor_id) ==
    LET row == [film_id |-> film_id, actor_id |-> actor_id]
        last == BagCardinality(PeopleOf(d, film_id)) = 1
    IN  IF actor_id \notin DOMAIN d.actor THEN Respond(NotFound, d)
        ELSE IF ~ BagIn(row, d.film_actor) THEN Respond(NotFound, d)
        ELSE Respond(Found, Db(d.actor,
                               IF last THEN Drop(d.film, {film_id}) ELSE d.film,
                               d.film_actor (-) SetToBag({row})))

\* delete_film_by_actor that answers a row that is gone as a deleted one
delete_film_by_actor_quiet(d, film_id, actor_id) ==
    LET row == [film_id |-> film_id, actor_id |-> actor_id]
    IN  IF actor_id \notin DOMAIN d.actor THEN Respond(NotFound, d)
        ELSE IF ~ BagIn(row, d.film_actor) THEN Respond(Found, d)
        ELSE Respond(Found, Db(d.actor, d.film, d.film_actor (-) SetToBag({row})))

\* delete_film_by_actor: one film_actor row of the pair
delete_film_by_actor(d, film_id, actor_id) ==
    LET row == [film_id |-> film_id, actor_id |-> actor_id]
    IN  IF actor_id \notin DOMAIN d.actor THEN Respond(NotFound, d)
        ELSE IF ~ BagIn(row, d.film_actor) THEN Respond(NotFound, d)
        ELSE Respond(Found, Db(d.actor, d.film, d.film_actor (-) SetToBag({row})))

(***************************************************************************)
(* db.session: what the handler of a request holds between two statements. *)
(* Requests served one after the other never hold anything between two     *)
(* requests.                                                               *)
(***************************************************************************)
Workers == 1..MaxRequests

\* op: the handler; pc: the statement it is at; form: request.form; actor,
\* film: the keys of the rows it loaded (0: none); created: it inserted the
\* film; absent: its lookup found no row; people: film.people of the films
\* of actor.films as it loaded them; films_to_delete; status: its response
Idle ==
    [op |-> "idle", pc |-> "idle", form |-> NoForm, actor |-> 0, film |-> 0,
     created |-> FALSE, absent |-> FALSE, people |-> <<>>,
     films_to_delete |-> {}, status |-> 0]

(***************************************************************************)
(* The requests                                                            *)
(***************************************************************************)
\* The tables are empty.  The engine of config.TestConfig (SQLite) does not
\* enforce the foreign keys of film_actor, the engine of config.Config
\* (PostgreSQL) does.  Requests served one after the other run on the engine
\* that leaves the keys to the handlers: as no handler then ever breaks a
\* key (C2_ReferentialIntegrity), the enforcing engine never rejects a
\* commit and serves the same requests the same way.
Init ==
    /\ actor = <<>>
    /\ film = <<>>
    /\ film_actor = EmptyBag
    /\ foreign_keys = FALSE
    /\ session = [request \in Workers |-> Idle]

\* the primary keys of a database stay within the bounds of the model
InBounds(d) == DOMAIN d.actor \subseteq ActorIds /\ DOMAIN d.film \subseteq FilmIds

\* In every action the handler's response r is computed once and its
\* database becomes the database.
AddActor ==
    \E request \in Requests(ActorForms), new_id \in Uuid4(ActorIds, DOMAIN actor) :
        \E r \in {add_actor(db, request.method, request.form, new_id)} :
            /\ InBounds(r.db)
            /\ actor' = r.db.actor
            /\ film' = r.db.film
            /\ film_actor' = r.db.film_actor
            /\ UNCHANGED <<foreign_keys, session>>

UpdateActor ==
    \E request \in Requests(ActorForms), actor_id \in ActorIds :
        \E r \in {update_actor(db, request.method, actor_id, request.form)} :
            /\ InBounds(r.db)
            /\ actor' = r.db.actor
            /\ film' = r.db.film
            /\ film_actor' = r.db.film_actor
            /\ UNCHANGED <<foreign_keys, session>>

DeleteActor ==
    \E method \in Methods, actor_id \in ActorIds :
        \E r \in {delete_actor(db, foreign_keys, method, actor_id)} :
            /\ InBounds(r.db)
            /\ actor' = r.db.actor
            /\ film' = r.db.film
            /\ film_actor' = r.db.film_actor
            /\ UNCHANGED <<foreign_keys, session>>

AddFilm ==
    \E request \in Requests(AddFilmForms), new_id \in Uuid4(FilmIds, DOMAIN film) :
        \E r \in {add_film(db, foreign_keys, request.method, request.form, new_id)} :
            /\ InBounds(r.db)
            /\ actor' = r.db.actor
            /\ film' = r.db.film
            /\ film_actor' = r.db.film_actor
            /\ UNCHANGED <<foreign_keys, session>>

UpdateFilm ==
    \E request \in Requests(FilmForms), film_id \in FilmIds :
        \E r \in {update_film(db, request.method, film_id, request.form)} :
            /\ InBounds(r.db)
            /\ actor' = r.db.actor
            /\ film' = r.db.film
            /\ film_actor' = r.db.film_actor
            /\ UNCHANGED <<foreign_keys, session>>

DeleteFilm ==
    \E method \in Methods, film_id \in FilmIds :
        \E r \in {delete_film(db, foreign_keys, method, film_id)} :
            /\ InBounds(r.db)
            /\ actor' = r.db.actor
            /\ film' = r.db.film
            /\ film_actor' = r.db.film_actor
            /\ UNCHANGED <<foreign_keys, session>>

DeleteFilmByActor ==
    \E film_id \in FilmIds, actor_id \in ActorIds :
        \E r \in {delete_film_by_actor(db, film_id, actor_id)} :
            /\ InBounds(r.db)
            /\ actor' = r.db.actor
            /\ film' = r.db.film
            /\ film_actor' = r.db.film_actor
            /\ UNCHANGED <<foreign_keys, session>>

Detail ==
    \E args \in Args, get \in Gets :
        \E r \in {detail(db, args.title, args.year, get)} :
            /\ InBounds(r.db)
            /\ actor' = r.db.actor
            /\ film' = r.db.film
            /\ film_actor' = r.db.film_actor
            /\ UNCHANGED <<foreign_keys, session>>

Next ==
    \/ AddActor
    \/ UpdateActor
    \/ DeleteActor
    \/ AddFilm
    \/ UpdateFilm
    \/ DeleteFilm
    \/ DeleteFilmByActor
    \/ Detail

Spec == Init /\ [][Next]_vars

(***************************************************************************)
(* Requests served at the same time.  Every statement of a handler that    *)
(* goes to the database is a step of its own and reads what is committed   *)
(* when it runs (the default isolation of both engines); the rows a        *)
(* handler writes reach the database at its commit.  The handlers are      *)
(* add_actor, add_film and delete_actor, requested by POST.                *)
(***************************************************************************)
RacingActorForms == {ActorForm("John", "Doe", <<3, 0>>), ActorForm("Jane", "Doe", <<3, 0>>)}

RacingFilmForms ==
    {[first_name |-> a.first_name, last_name |-> a.last_name, age |-> a.age,
      title |-> f.title, description |-> f.description, year |-> f.year] :
        a \in RacingActorForms,
        f \in {FilmForm("Big", "d1", <<1, 9, 9, 4>>), FilmForm("Up", "d1", <<1, 9, 9, 4>>)}}

\* the session of request w becomes next
Hold(w, next) == session' = [session EXCEPT ![w] = next]

\* the handler of request w answers status
Answer(w, status) == Hold(w, [session[w] EXCEPT !.pc = "done", !.status = status])

At(w, op, pc) == session[w].op = op /\ session[w].pc = pc

\* the keys some session holds: uuid4() never hands out the key of a row
\* that existed, so a new row never has a key a handler still holds
HeldActors == {session[w].actor : w \in Workers}
HeldFilms ==
    UNION {{session[w].film} \cup session[w].films_to_delete \cup DOMAIN session[w].people :
               w \in Workers}

\* add_actor, lines 92-98: the lookup of the triple
AddActorSelect(w) ==
    /\ session[w].pc = "idle"
    /\ \E form \in RacingActorForms :
        LET began == [Idle EXCEPT !.op = "add_actor", !.form = form]
        IN  IF SelectActor(db, form.first_name, form.last_name, form.age) # {}
            THEN Hold(w, [began EXCEPT !.pc = "done", !.status = Found])
            ELSE Hold(w, [began EXCEPT !.pc = "commit", !.absent = TRUE])
    /\ UNCHANGED <<actor, film, film_actor, foreign_keys>>

\* add_actor, lines 99-102: the insert and its commit; an IntegrityError of
\* the commit is not caught
AddActorCommit(w) ==
    /\ At(w, "add_actor", "commit")
    /\ \E new_id \in Uuid4(ActorIds, DOMAIN actor \cup HeldActors) :
        LET row == ActorRow(session[w].form)
        IN  IF ActorChecks(row) /\ UniqueActor(db, new_id, row)
            THEN /\ new_id \in ActorIds
                 /\ actor' = Put(actor, new_id, row)
                 /\ Answer(w, Found)
            ELSE /\ actor' = actor
                 /\ Answer(w, InternalServerError)
    /\ UNCHANGED <<film, film_actor, foreign_keys>>

\* add_film, lines 86-94: the lookup of the actor
AddFilmSelectActor(w) ==
    /\ session[w].pc = "idle"
    /\ \E form \in RacingFilmForms :
        LET began == [Idle EXCEPT !.op = "add_film", !.form = form]
            actors == SelectActor(db, form.first_name, form.last_name, form.age)
        IN  IF actors = {}
            THEN Hold(w, [began EXCEPT !.pc = "done", !.status = NotFound])
            ELSE Hold(w, [began EXCEPT !.pc = "titles", !.actor = Scalar(actors)])
    /\ UNCHANGED <<actor, film, film_actor, foreign_keys>>

\* add_film, lines 96-101: actor.films is loaded and the titles are checked
AddFilmTitles(w) ==
    /\ At(w, "add_film", "titles")
    /\ IF ~ FilmsLoad(db, session[w].actor) THEN Answer(w, InternalServerError)
       ELSE IF session[w].form.title \in TitlesOf(db, session[w].actor)
            THEN Answer(w, Conflict)
       ELSE Hold(w, [session[w] EXCEPT !.pc = "select_film"])
    /\ UNCHANGED <<actor, film, film_actor, foreign_keys>>

\* add_film, lines 103-108: the lookup of the film
AddFilmSelectFilm(w) ==
    /\ At(w, "add_film", "select_film")
    /\ LET films == SelectFilm(db, session[w].form.title, session[w].form.year)
       IN  IF films = {}
           THEN Hold(w, [session[w] EXCEPT !.pc = "commit_film", !.absent = TRUE])
           ELSE Hold(w, [session[w] EXCEPT !.pc = "commit_film_actor",
                                           !.film = Scalar(films)])
    /\ UNCHANGED <<actor, film, film_actor, foreign_keys>>

\* add_film, lines 110-113: the insert of the film and its commit
AddFilmCommitFilm(w) ==
    /\ At(w, "add_film", "commit_film")
    /\ \E new_id \in Uuid4(FilmIds, DOMAIN film \cup HeldFilms) :
        LET row == FilmRow(session[w].form)
        IN  IF FilmChecks(row) /\ UniqueFilm(db, new_id, row)
            THEN /\ new_id \in FilmIds
                 /\ film' = Put(film, new_id, row)
                 /\ Hold(w, [session[w] EXCEPT !.pc = "commit_film_actor",
                                               !.film = new_id, !.created = TRUE])
            ELSE /\ film' = film
                 /\ Answer(w, InternalServerError)
    /\ UNCHANGED <<actor, film_actor, foreign_keys>>

\* add_film, lines 115-117: the insert of the film_actor row and its commit.
\* The commit of the film has expired actor and film, and actor.id, film.id
\* of a row that is gone raise; without that commit the keys are the ones
\* the lookups gave.
AddFilmCommitFilmActor(w) ==
    /\ At(w, "add_film", "commit_film_actor")
    /\ IF session[w].created
          /\ (session[w].actor \notin DOMAIN actor \/ session[w].film \notin DOMAIN film)
       THEN /\ film_actor' = film_actor
            /\ Answer(w, InternalServerError)
       ELSE \E r \in {InsertFilmActor(db, foreign_keys, session[w].film, session[w].actor)} :
            /\ film_actor' = r.db.film_actor
            /\ Answer(w, r.status)
    /\ UNCHANGED <<actor, film, foreign_keys>>

\* delete_actor, lines 188-190: the actor of the key
DeleteActorGet(w) ==
    /\ session[w].pc = "idle"
    /\ \E actor_id \in ActorIds :
        LET began == [Idle EXCEPT !.op = "delete_actor", !.actor = actor_id]
        IN  IF actor_id \notin DOMAIN actor
            THEN Hold(w, [began EXCEPT !.pc = "done", !.status = NotFound])
            ELSE Hold(w, [began EXCEPT !.pc = "census"])
    /\ UNCHANGED <<actor, film, film_actor, foreign_keys>>

\* delete_actor, lines 192-197: actor.films and the film.people of each are
\* loaded and counted
DeleteActorCensus(w) ==
    /\ At(w, "delete_actor", "census")
    /\ IF ~ FilmsLoad(db, session[w].actor) THEN Answer(w, InternalServerError)
       ELSE LET films == {row.film_id : row \in BagToSet(FilmsOf(db, session[w].actor))}
            IN  Hold(w, [session[w] EXCEPT
                    !.pc = "commit",
                    !.people = [f \in films |-> PeopleOf(db, f)],
                    !.films_to_delete = FilmsToDelete(db, session[w].actor)])
    /\ UNCHANGED <<actor, film, film_actor, foreign_keys>>

\* delete_actor, lines 198-207: the film_actor rows of the actor, the films
\* counted and the actor are deleted and committed; a row that is gone
\* already is deleted without an error
DeleteActorCommit(w) ==
    /\ At(w, "delete_actor", "commit")
    /\ \E r \in {Commit(db, foreign_keys,
                        Db(Drop(actor, {session[w].actor}),
                           Drop(film, session[w].films_to_delete),
                           DeleteOfActor(film_actor, session[w].actor)))} :
        /\ actor' = r.db.actor
        /\ film' = r.db.film
        /\ film_actor' = r.db.film_actor
        /\ Answer(w, r.status)
    /\ UNCHANGED foreign_keys

\* the response is sent and the session of the request is removed
Return(w) ==
    /\ session[w].pc = "done"
    /\ Hold(w, Idle)
    /\ UNCHANGED <<actor, film, film_actor, foreign_keys>>

\* the engine is the one the application serves its requests with, of
\* config.Config (PostgreSQL), which enforces the foreign keys
InitConcurrent ==
    /\ actor = <<>>
    /\ film = <<>>
    /\ film_actor = EmptyBag
    /\ foreign_keys = TRUE
    /\ session = [request \in Workers |-> Idle]

NextConcurrent ==
    \E w \in Workers :
        \/ AddActorSelect(w)
        \/ AddActorCommit(w)
        \/ AddFilmSelectActor(w)
        \/ AddFilmTitles(w)
        \/ AddFilmSelectFilm(w)
        \/ AddFilmCommitFilm(w)
        \/ AddFilmCommitFilmActor(w)
        \/ DeleteActorGet(w)
        \/ DeleteActorCensus(w)
        \/ DeleteActorCommit(w)
        \/ Return(w)

Concurrent == InitConcurrent /\ [][NextConcurrent]_vars

(***************************************************************************)
(* Properties                                                              *)
(***************************************************************************)

\* the actors a film has a film_actor row with
ActorsIn(d, film_id) == {row.actor_id : row \in BagToSet(PeopleOf(d, film_id))}

\* the film_actor rows of a film with other actors than actor_id
OthersIn(d, film_id, actor_id) ==
    LET people == PeopleOf(d, film_id)
    IN  [row \in {r \in DOMAIN people : r.actor_id # actor_id} |-> people[row]]

\* C1: delete_actor(A) of an existing actor A succeeds and leaves a database
\* without A, without a film_actor row of A and without the films whose only
\* actor was A, as counted before any row is removed; a film A shared with
\* other actors is still there, unchanged, with the rows of the other actors
\* and no other row.
C1_DeleteActorCascades ==
    \A a \in DOMAIN actor : \A r \in {delete_actor(db, foreign_keys, POST, a)} :
        /\ r.status = Found
        /\ a \notin DOMAIN r.db.actor
        /\ \A row \in BagToSet(r.db.film_actor) : row.actor_id # a
        /\ \A f \in DOMAIN film :
            /\ ActorsIn(db, f) = {a} => f \notin DOMAIN r.db.film
            /\ (a \in ActorsIn(db, f) /\ ActorsIn(db, f) # {a}) =>
                   /\ f \in DOMAIN r.db.film
                   /\ r.db.film[f] = film[f]
                   /\ PeopleOf(r.db, f) = OthersIn(db, f, a)

\* C1's case: an actor with a film of its own and a film it shares, and
\* delete_actor removes the one and keeps the other
C1_Witness ==
    \E a \in DOMAIN actor, f1 \in DOMAIN film, f2 \in DOMAIN film :
        /\ ActorsIn(db, f1) = {a}
        /\ a \in ActorsIn(db, f2) /\ ActorsIn(db, f2) # {a}
        /\ f1 \notin DOMAIN delete_actor(db, foreign_keys, POST, a).db.film
        /\ f2 \in DOMAIN delete_actor(db, foreign_keys, POST, a).db.film

\* C2: in every reachable state every film_actor row references a film that
\* exists and an actor that exists.
C2_ReferentialIntegrity ==
    \A row \in BagToSet(film_actor) :
        row.film_id \in DOMAIN film /\ row.actor_id \in DOMAIN actor

\* C2's case: a film and an actor that have film_actor rows and that
\* delete_film and delete_actor delete
C2_Witness ==
    \E row \in BagToSet(film_actor) :
        /\ row.film_id \notin DOMAIN delete_film(db, foreign_keys, POST, row.film_id).db.film
        /\ row.actor_id \notin
               DOMAIN delete_actor(db, foreign_keys, POST, row.actor_id).db.actor
        /\ Cardinality(DOMAIN actor) > 1
        /\ Cardinality(DOMAIN film) > 1

\* C3: in every reachable state no two actors have the same
\* (first_name, last_name, age).
C3_ActorUnique ==
    \A a \in DOMAIN actor, b \in DOMAIN actor :
        (/\ actor[a].first_name = actor[b].first_name
         /\ actor[a].last_name = actor[b].last_name
         /\ actor[a].age = actor[b].age) => a = b

\* C3's case: update_actor is asked to give an actor the triple of another
\* actor, and refuses
C3_Witness ==
    \E form \in ActorForms, a \in DOMAIN actor, b \in DOMAIN actor :
        /\ a # b
        /\ actor[b] = ActorRow(form)
        /\ update_actor(db, POST, a, form).status = Conflict

\* C4: in every reachable state no two films have the same (title, year).
C4_FilmUnique ==
    \A f \in DOMAIN film, g \in DOMAIN film :
        (film[f].title = film[g].title /\ film[f].year = film[g].year) => f = g

\* C4's case: update_film is asked to give a film the (title, year) of
\* another film, and refuses
C4_Witness ==
    \E form \in FilmForms, f \in DOMAIN film, g \in DOMAIN film :
        /\ f # g
        /\ film[g].title = form.title /\ film[g].year = CastInteger(form.year)
        /\ update_film(db, POST, f, form).status = Conflict

\* C5: in every reachable state there is at most one film_actor row for a
\* (film_id, actor_id) pair.
C5_FilmActorUnique ==
    \A row \in BagToSet(film_actor) : CopiesIn(row, film_actor) = 1

\* C5's case: add_film is asked for a film and an actor that have a row, and
\* adds none
C5_Witness ==
    \E form \in AddFilmForms, row \in BagToSet(film_actor) :
        /\ row.actor_id \in DOMAIN actor /\ row.film_id \in DOMAIN film
        /\ actor[row.actor_id] = ActorRow(form)
        /\ film[row.film_id].title = form.title
        /\ film[row.film_id].year = CastInteger(form.year)
        /\ \A new_id \in Uuid4(FilmIds, DOMAIN film) :
               add_film(db, foreign_keys, POST, form, new_id).db.film_actor = film_actor

\* the actors that have the triple of a form, the films that have its
\* (title, year)
Who(form) == {a \in DOMAIN actor : actor[a] = ActorRow(form)}
Same(form) ==
    {f \in DOMAIN film :
        film[f].title = form.title /\ film[f].year = CastInteger(form.year)}

Link(f, a) == [film_id |-> f, actor_id |-> a]

\* C6: add_film for an actor that has a film_actor row with a film of the
\* form's title, of whatever year, answers Conflict and leaves the database
\* as it was.
C6_AddFilmTitleConflict ==
    \A form \in AddFilmForms :
        (\E a \in Who(form), f \in DOMAIN film :
             film[f].title = form.title /\ BagIn(Link(f, a), film_actor))
            => \A new_id \in Uuid4(FilmIds, DOMAIN film) :
                   add_film(db, foreign_keys, POST, form, new_id) = Respond(Conflict, db)

\* C6's case: the actor has the title in one year and the form asks for it
\* in another year, of which there is no film
C6_Witness ==
    \E form \in AddFilmForms, f \in DOMAIN film : \E a \in Who(form) :
        /\ film[f].title = form.title /\ BagIn(Link(f, a), film_actor)
        /\ film[f].year # CastInteger(form.year)
        /\ Same(form) = {}
        /\ FilmChecks(FilmRow(form))
        /\ \E new_id \in FilmIds \ DOMAIN film :
               add_film(db, foreign_keys, POST, form, new_id).status = Conflict

\* C7: an add_film that succeeds leaves the actors as they were; when no film
\* has the form's (title, year) it adds one film, of the form's fields, under
\* a new key, and otherwise leaves the films as they were, description
\* included; it adds one film_actor row, of that film and the form's actor,
\* that was not there.
C7_AddFilmResolves ==
    \A form \in AddFilmForms, new_id \in Uuid4(FilmIds, DOMAIN film) :
        \A r \in {add_film(db, foreign_keys, POST, form, new_id)} :
            r.status = Found =>
                /\ r.db.actor = actor
                /\ \E a \in Who(form) :
                    IF Same(form) = {}
                    THEN /\ new_id \notin DOMAIN film
                         /\ DOMAIN r.db.film = DOMAIN film \cup {new_id}
                         /\ r.db.film[new_id] = FilmRow(form)
                         /\ \A f \in DOMAIN film : r.db.film[f] = film[f]
                         /\ r.db.film_actor = film_actor (+) SetToBag({Link(new_id, a)})
                    ELSE \E f \in Same(form) :
                         /\ r.db.film = film
                         /\ ~ BagIn(Link(f, a), film_actor)
                         /\ r.db.film_actor = film_actor (+) SetToBag({Link(f, a)})

\* C7's case: add_film succeeds with a form whose (title, year) a film has
\* under another description, and with a form whose (title, year) no film has
C7_Witness ==
    /\ \E form \in AddFilmForms : \E f \in Same(form) :
           /\ film[f].description # form.description
           /\ \A new_id \in Uuid4(FilmIds, DOMAIN film) :
                  add_film(db, foreign_keys, POST, form, new_id).status = Found
    /\ \E form \in AddFilmForms, new_id \in FilmIds \ DOMAIN film :
           /\ Same(form) = {}
           /\ add_film(db, foreign_keys, POST, form, new_id).status = Found

\* C8: add_film with a form whose (first_name, last_name, age) no actor has
\* answers NotFound and leaves the database as it was: no actor, no film and
\* no film_actor row is added.
C8_AddFilmActorNotFound ==
    \A form \in AddFilmForms :
        Who(form) = {}
            => \A new_id \in Uuid4(FilmIds, DOMAIN film) :
                   add_film(db, foreign_keys, POST, form, new_id) = Respond(NotFound, db)

\* C8's case: the form names an actor of another age than the actor of that
\* name, and a film that could be inserted
C8_Witness ==
    \E form \in AddFilmForms, a \in DOMAIN actor, new_id \in FilmIds \ DOMAIN film :
        /\ Who(form) = {}
        /\ actor[a].first_name = form.first_name
        /\ actor[a].last_name = form.last_name
        /\ ActorChecks(ActorRow(form))
        /\ Same(form) = {} /\ FilmChecks(FilmRow(form))
        /\ add_film(db, foreign_keys, POST, form, new_id).status = NotFound

\* C9: add_actor with a triple an actor has answers as for a new actor, not
\* with Conflict, and leaves the database as it was; a second add_actor of
\* any form leaves the database the first one left.
C9_AddActorIdempotent ==
    \A form \in ActorForms, new_id \in Uuid4(ActorIds, DOMAIN actor) :
        \A once \in {add_actor(db, POST, form, new_id)} :
            /\ Who(form) # {} => once = Respond(Found, db)
            /\ \A other_id \in Uuid4(ActorIds, DOMAIN once.db.actor) :
                   \A twice \in {add_actor(once.db, POST, form, other_id)} :
                       /\ twice.db = once.db
                       /\ once.status = Found => twice.status = Found

\* C9's case: the age of the form is written otherwise than the age of the
\* actor that has the triple, and the table has room for another row
C9_Witness ==
    \E form \in ActorForms, new_id \in ActorIds \ DOMAIN actor :
        /\ Who(form) # {}
        /\ Len(form.age) = 3
        /\ add_actor(db, POST, form, new_id) = Respond(Found, db)

\* C10: update_actor of an actor that exists, with a triple that some actor
\* has, be it the actor itself, answers Conflict and leaves the database as
\* it was.
C10_UpdateActorConflict ==
    \A form \in ActorForms :
        Who(form) # {}
            => \A a \in DOMAIN actor :
                   update_actor(db, POST, a, form) = Respond(Conflict, db)

\* C10's case: the form is the triple the actor itself has, and no other
\* actor has it
C10_Witness ==
    \E form \in ActorForms, a \in DOMAIN actor :
        /\ Who(form) = {a}
        /\ Cardinality(DOMAIN actor) > 1
        /\ update_actor(db, POST, a, form).status = Conflict

\* C11: an update_actor of an existing actor succeeds when no actor has the
\* form's triple and the fields pass the checks of the table, and a
\* successful one only happens when no actor has the triple; it leaves the
\* actor under its key with the three fields of the form, and every other
\* actor, every film and every film_actor row as they were.
C11_UpdateActorOverwrites ==
    \A form \in ActorForms, a \in DOMAIN actor :
        \A r \in {update_actor(db, POST, a, form)} :
            /\ (Who(form) = {} /\ ActorChecks(ActorRow(form))) => r.status = Found
            /\ r.status = Found =>
                   /\ Who(form) = {}
                   /\ DOMAIN r.db.actor = DOMAIN actor
                   /\ r.db.actor[a].first_name = form.first_name
                   /\ r.db.actor[a].last_name = form.last_name
                   /\ r.db.actor[a].age = CastInteger(form.age)
                   /\ \A b \in DOMAIN actor \ {a} : r.db.actor[b] = actor[b]
                   /\ r.db.film = film
                   /\ r.db.film_actor = film_actor

\* C11's case: the actor has a film, there is another actor, and the update
\* changes the names and the age
C11_Witness ==
    \E form \in ActorForms, a \in DOMAIN actor :
        /\ FilmsOf(db, a) # EmptyBag
        /\ Cardinality(DOMAIN actor) > 1
        /\ actor[a].first_name # form.first_name
        /\ actor[a].age # CastInteger(form.age)
        /\ update_actor(db, POST, a, form).status = Found

\* C12: update_film of a film that exists, with a (title, year) that some
\* film has, be it the film itself under another description, answers
\* Conflict and leaves the database as it was.
C12_UpdateFilmConflict ==
    \A form \in FilmForms :
        Same(form) # {}
            => \A f \in DOMAIN film :
                   update_film(db, POST, f, form) = Respond(Conflict, db)

\* C12's case: the form is the (title, year) of the film itself, with
\* another description, and no other film has it
C12_Witness ==
    \E form \in FilmForms, f \in DOMAIN film :
        /\ Same(form) = {f}
        /\ film[f].description # form.description
        /\ Cardinality(DOMAIN film) > 1
        /\ update_film(db, POST, f, form).status = Conflict

\* C13: an update_film of an existing film succeeds when no film has the
\* form's (title, year) and the fields pass the checks of the table, and a
\* successful one only happens when no film has the pair; it leaves the film
\* under its key with the title, description and year of the form, and every
\* other film, every actor and every film_actor row as they were.
C13_UpdateFilmOverwrites ==
    \A form \in FilmForms, f \in DOMAIN film :
        \A r \in {update_film(db, POST, f, form)} :
            /\ (Same(form) = {} /\ FilmChecks(FilmRow(form))) => r.status = Found
            /\ r.status = Found =>
                   /\ Same(form) = {}
                   /\ DOMAIN r.db.film = DOMAIN film
                   /\ r.db.film[f].title = form.title
                   /\ r.db.film[f].description = form.description
                   /\ r.db.film[f].year = CastInteger(form.year)
                   /\ \A g \in DOMAIN film \ {f} : r.db.film[g] = film[g]
                   /\ r.db.actor = actor
                   /\ r.db.film_actor = film_actor

\* C13's case: the film has an actor, there is another film, and the update
\* changes the title and the description
C13_Witness ==
    \E form \in FilmForms, f \in DOMAIN film :
        /\ PeopleOf(db, f) # EmptyBag
        /\ Cardinality(DOMAIN film) > 1
        /\ film[f].title # form.title
        /\ film[f].description # form.description
        /\ update_film(db, POST, f, form).status = Found

\* C14: delete_film(F) of an existing film F succeeds and leaves a database
\* without F and without a film_actor row of F; every actor, every other
\* film and every film_actor row of another film are as they were.
C14_DeleteFilmFrame ==
    \A f \in DOMAIN film : \A r \in {delete_film(db, foreign_keys, POST, f)} :
        /\ r.status = Found
        /\ r.db.actor = actor
        /\ DOMAIN r.db.film = DOMAIN film \ {f}
        /\ \A g \in DOMAIN film \ {f} : r.db.film[g] = film[g]
        /\ BagToSet(r.db.film_actor) = {row \in BagToSet(film_actor) : row.film_id # f}
        /\ \A row \in BagToSet(r.db.film_actor) :
               CopiesIn(row, r.db.film_actor) = CopiesIn(row, film_actor)

\* C14's case: the film is the only film of one of its actors, and another
\* film has actors
C14_Witness ==
    \E f \in DOMAIN film, g \in DOMAIN film, a \in DOMAIN actor :
        /\ f # g
        /\ PeopleOf(db, g) # EmptyBag
        /\ BagToSet(FilmsOf(db, a)) = {Link(f, a)}
        /\ a \in DOMAIN delete_film(db, foreign_keys, POST, f).db.actor

\* C15: delete_film_by_actor(F, A) of a film_actor row (F, A) succeeds and
\* leaves a database without that row; every actor, every film and every
\* other film_actor row are as they were.
C15_DeleteFilmActorFrame ==
    \A row \in BagToSet(film_actor) :
        \A r \in {delete_film_by_actor(db, row.film_id, row.actor_id)} :
            /\ r.status = Found
            /\ r.db.actor = actor
            /\ r.db.film = film
            /\ BagToSet(r.db.film_actor) = BagToSet(film_actor) \ {row}
            /\ \A other \in BagToSet(r.db.film_actor) :
                   CopiesIn(other, r.db.film_actor) = CopiesIn(other, film_actor)

\* C15's case: the row is the only row of its film and the only row of its
\* actor, and there is another row
C15_Witness ==
    \E row \in BagToSet(film_actor) :
        /\ BagToSet(PeopleOf(db, row.film_id)) = {row}
        /\ BagToSet(FilmsOf(db, row.actor_id)) = {row}
        /\ BagCardinality(film_actor) > 1
        /\ row.film_id \in DOMAIN delete_film_by_actor(db, row.film_id, row.actor_id).db.film

\* the keys of the model and one key beyond them that no row has
AbsentActors == (ActorIds \cup {MaxActors + 1}) \ DOMAIN actor
AbsentFilms == (FilmIds \cup {MaxFilms + 1}) \ DOMAIN film

\* C16: delete_film_by_actor(F, A) answers NotFound and leaves the database
\* as it was when there is no actor A, and when there is no film_actor row
\* (F, A), the film F existing or not.
C16_DeleteFilmActorNotFound ==
    \A f \in DOMAIN film \cup AbsentFilms, a \in DOMAIN actor \cup AbsentActors :
        (a \notin DOMAIN actor \/ ~ BagIn(Link(f, a), film_actor))
            => delete_film_by_actor(db, f, a) = Respond(NotFound, db)

\* C16's case: an actor without a row with a film that exists and with a film
\* that does not, and a key that no actor has
C16_Witness ==
    \E a \in DOMAIN actor, f \in DOMAIN film, g \in FilmIds \ DOMAIN film :
        /\ ~ BagIn(Link(f, a), film_actor)
        /\ delete_film_by_actor(db, f, a).status = NotFound
        /\ delete_film_by_actor(db, g, a).status = NotFound
        /\ \E b \in ActorIds \ DOMAIN actor :
               delete_film_by_actor(db, f, b).status = NotFound

\* C17: update_actor and delete_actor with a key no actor has, update_film
\* and delete_film with a key no film has, answer NotFound, whatever the
\* method and the form, and leave the database as it was.
C17_NotFound ==
    /\ \A a \in AbsentActors :
        /\ \A request \in Requests(ActorForms) :
               update_actor(db, request.method, a, request.form) = Respond(NotFound, db)
        /\ \A method \in Methods :
               delete_actor(db, foreign_keys, method, a) = Respond(NotFound, db)
    /\ \A f \in AbsentFilms :
        /\ \A request \in Requests(FilmForms) :
               update_film(db, request.method, f, request.form) = Respond(NotFound, db)
        /\ \A method \in Methods :
               delete_film(db, foreign_keys, method, f) = Respond(NotFound, db)

\* C17's case: there are actors, films and film_actor rows, and a key of the
\* model that no actor has and one that no film has
C17_Witness ==
    \E a \in ActorIds \ DOMAIN actor, f \in FilmIds \ DOMAIN film :
        /\ film_actor # EmptyBag
        /\ delete_actor(db, foreign_keys, POST, a).status = NotFound
        /\ delete_film(db, foreign_keys, POST, f).status = NotFound
        /\ \E form \in ActorForms : update_actor(db, POST, a, form).status = NotFound
        /\ \E form \in FilmForms : update_film(db, POST, f, form).status = NotFound

\* C18: an add_film that has failed has left no film of its own in the
\* database: the film it inserted is not there once it has answered with a
\* failure.
C18_AddFilmAtomic ==
    \A w \in Workers :
        (At(w, "add_film", "done") /\ session[w].status # Found /\ session[w].created)
            => session[w].film \notin DOMAIN film

\* C19: when delete_actor(A) has counted a film F with the two actors A and
\* B, and delete_actor(A) and delete_actor(B) have both succeeded, F is not
\* in the database without a film_actor row.
C19_DeleteActorSerial ==
    \A v \in Workers, w \in Workers : \A f \in DOMAIN film :
        (/\ At(v, "delete_actor", "done") /\ session[v].status = Found
         /\ At(w, "delete_actor", "done") /\ session[w].status = Found
         /\ session[v].actor # session[w].actor
         /\ f \in DOMAIN session[v].people
         /\ {row.actor_id : row \in BagToSet(session[v].people[f])}
                = {session[v].actor, session[w].actor})
            => PeopleOf(db, f) # EmptyBag

\* the requests v and w looked the same key up, each before the other
\* inserted its row: two add_actor of one triple that found no actor, two
\* add_film of one (title, year) that found no film
Race(v, w, op) ==
    /\ v # w
    /\ At(v, op, "done") /\ session[v].absent
    /\ At(w, op, "done") /\ session[w].absent
    /\ op = "add_actor" => ActorRow(session[v].form) = ActorRow(session[w].form)
    /\ op = "add_film" =>
           /\ session[v].form.title = session[w].form.title
           /\ CastInteger(session[v].form.year) = CastInteger(session[w].form.year)

\* C20: after a race of two add_actor, or of two add_film, for one key, at
\* most one row has the key, and the request that did not insert its row
\* has answered Conflict.
C20_CreateRace ==
    \A v \in Workers, w \in Workers :
        /\ Race(v, w, "add_actor") =>
               /\ Cardinality(SelectActor(db, session[v].form.first_name,
                                          session[v].form.last_name,
                                          session[v].form.age)) <= 1
               /\ session[v].status # Found => session[v].status = Conflict
        /\ Race(v, w, "add_film") =>
               /\ Cardinality(SelectFilm(db, session[v].form.title,
                                         session[v].form.year)) <= 1
               /\ ~ session[v].created => session[v].status = Conflict

\* C21: detail of a film that exists answers OK and leaves the database as
\* it was, whatever requests.get() does: a failed lookup gives the page no
\* rating.
C21_DetailSucceeds ==
    \A form \in FilmForms, get \in Gets :
        Same(form) # {} =>
            \A r \in {detail(db, form.title, form.year, get)} :
                /\ r.status = OK
                /\ r.db = db
                /\ (get.raises \/ get.status_code # OK) => r.movie_data = None

\* an actor of database d has film_actor rows with two films of one title
SharesTitle(d) ==
    \E row \in BagToSet(d.film_actor), other \in BagToSet(d.film_actor) :
        /\ row.actor_id = other.actor_id
        /\ row.film_id # other.film_id
        /\ row.film_id \in DOMAIN d.film /\ other.film_id \in DOMAIN d.film
        /\ d.film[row.film_id].title = d.film[other.film_id].title

\* C22, as claimed: in every reachable state no actor has film_actor rows
\* with two films of one title.
C22_OneFilmPerTitle == ~ SharesTitle(db)

\* C22, amended: a request that changes the title of no film keeps the rule:
\* when no actor has two films of one title before it, none has after it.
C22_TitleRulePreserved ==
    [][(/\ ~ SharesTitle(db)
        /\ \A f \in DOMAIN film \cap DOMAIN film' : film'[f].title = film[f].title)
           => ~ SharesTitle(Db(actor', film', film_actor'))]_vars

\* C22's case: an actor with two films of two titles, for which add_film
\* refuses the title of one of them in a year no film has
C22_Witness ==
    \E form \in AddFilmForms, f \in DOMAIN film, g \in DOMAIN film : \E a \in Who(form) :
        /\ BagIn(Link(f, a), film_actor) /\ BagIn(Link(g, a), film_actor)
        /\ film[f].title # film[g].title
        /\ film[f].title = form.title
        /\ Same(form) = {} /\ FilmChecks(FilmRow(form))
        /\ \A new_id \in Uuid4(FilmIds, DOMAIN film) :
               add_film(db, foreign_keys, POST, form, new_id).status = Conflict

\* the form of films/add.html with the fields of an actor form and a film form
AddFilmForm(a, f) ==
    [first_name |-> a.first_name, last_name |-> a.last_name, age |-> a.age,
     title |-> f.title, description |-> f.description, year |-> f.year]

\* a response that refuses the request and leaves database d as it was
Rejects(r, d) == r.status \notin {OK, Found} /\ r.db = d

\* C23: in every reachable state every actor has an age from 1 to 100 and
\* every film a year from 1901 to 2029; add_actor and update_actor with an
\* age next to that range (0, 101), add_film and update_film with a year next
\* to it (1900, 2030), are refused and leave the database as it was.
C23_FieldRanges ==
    /\ \A a \in DOMAIN actor : 1 <= actor[a].age /\ actor[a].age <= 100
    /\ \A f \in DOMAIN film : 1901 <= film[f].year /\ film[f].year <= 2029
    /\ \A form \in OutOfRangeActorForms :
        /\ \A new_id \in Uuid4(ActorIds, DOMAIN actor) :
               Rejects(add_actor(db, POST, form, new_id), db)
        /\ \A a \in DOMAIN actor : Rejects(update_actor(db, POST, a, form), db)
    /\ \A form \in OutOfRangeFilmForms :
        /\ \A f \in DOMAIN film : Rejects(update_film(db, POST, f, form), db)
        /\ \A a \in ActorForms, new_id \in Uuid4(FilmIds, DOMAIN film) :
               Rejects(add_film(db, foreign_keys, POST, AddFilmForm(a, form), new_id), db)

\* C23's case: there are an actor and a film with a film_actor row, rows can
\* be added, and the tables refuse the age 0 and the year 1900 at an update
\* and at an insert
C23_Witness ==
    \E a \in DOMAIN actor, f \in DOMAIN film :
        /\ BagIn(Link(f, a), film_actor)
        /\ \E form \in OutOfRangeActorForms, new_id \in ActorIds \ DOMAIN actor :
               /\ CastInteger(form.age) = 0
               /\ update_actor(db, POST, a, form).status = InternalServerError
               /\ add_actor(db, POST, form, new_id).status = InternalServerError
        /\ \E form \in OutOfRangeFilmForms, by \in ActorForms, new_id \in FilmIds \ DOMAIN film :
               /\ CastInteger(form.year) = 1900
               /\ actor[a] = ActorRow(by)
               /\ film[f].title # form.title
               /\ update_film(db, POST, f, form).status = InternalServerError
               /\ add_film(db, foreign_keys, POST, AddFilmForm(by, form), new_id).status
                      = InternalServerError

\* C24: a GET request to delete_actor leaves the database as it was: the
\* actor, its film_actor rows and its films are all still there.
C24_GetKeepsStore ==
    \A a \in DOMAIN actor : delete_actor(db, foreign_keys, GET, a).db = db

\* C25: delete_actor(A), of an actor A that exists or not, leaves every other
\* actor, every film_actor row of another actor and every film that has no
\* film_actor row with A, the films without any row included, as they were,
\* and adds no row to any table.
C25_DeleteActorFrame ==
    \A a \in DOMAIN actor \cup AbsentActors, method \in Methods :
        \A r \in {delete_actor(db, foreign_keys, method, a)} :
            /\ DOMAIN r.db.actor \subseteq DOMAIN actor
            /\ DOMAIN r.db.film \subseteq DOMAIN film
            /\ \A b \in DOMAIN actor \ {a} :
                   b \in DOMAIN r.db.actor /\ r.db.actor[b] = actor[b]
            /\ \A row \in BagToSet(film_actor) \cup BagToSet(r.db.film_actor) :
                   row.actor_id # a
                       => CopiesIn(row, r.db.film_actor) = CopiesIn(row, film_actor)
            /\ \A f \in DOMAIN film :
                   ~ BagIn(Link(f, a), film_actor)
                       => f \in DOMAIN r.db.film /\ r.db.film[f] = film[f]

\* C25's case: the actor deleted shares a film with another actor, and there
\* is a film without any film_actor row
C25_Witness ==
    \E a \in DOMAIN actor, b \in DOMAIN actor, f \in DOMAIN film, g \in DOMAIN film :
        /\ a # b
        /\ BagIn(Link(f, a), film_actor) /\ BagIn(Link(f, b), film_actor)
        /\ PeopleOf(db, g) = EmptyBag
        /\ \E r \in {delete_actor(db, foreign_keys, POST, a)} :
               /\ r.status = Found
               /\ a \notin DOMAIN r.db.actor
               /\ g \in DOMAIN r.db.film

\* C26: add_film for an actor that has a film_actor row with the film of the
\* form's (title, year) answers Conflict and leaves the database as it was,
\* so the row is never inserted twice; add_film for an actor that exists
\* answers InternalServerError only for a new film that the checks of the
\* film table refuse.
C26_PairNeverClashes ==
    \A form \in AddFilmForms : \A a \in Who(form) :
        \A new_id \in Uuid4(FilmIds, DOMAIN film) :
            \A r \in {add_film(db, foreign_keys, POST, form, new_id)} :
                /\ (\E f \in Same(form) : BagIn(Link(f, a), film_actor))
                       => r = Respond(Conflict, db)
                /\ r.status = InternalServerError
                       => Same(form) = {} /\ ~ FilmChecks(FilmRow(form))

\* C26's case: the actor has a row with the film of the form, the insert of
\* that row would be refused by film_actor_combines_unique, and add_film
\* answers Conflict
C26_Witness ==
    \E form \in AddFilmForms : \E a \in Who(form), f \in Same(form) :
        /\ ~ UniqueFilmActor(db, Link(f, a))
        /\ InsertFilmActor(db, foreign_keys, f, a).status = InternalServerError
        /\ \A new_id \in Uuid4(FilmIds, DOMAIN film) :
               add_film(db, foreign_keys, POST, form, new_id) = Respond(Conflict, db)

====
